---- MODULE Spec2Model ----
(***************************************************************************)
(* The authenticated API client (frontend/src/utils/api.js) and the auth   *)
(* store (stores/useAuthStore) of the Facebook Analytics frontend.         *)
(*                                                                         *)
(* JavaScript runs one task at a time: the answer to an HTTP request       *)
(* starts a task that runs every continuation it makes ready (the          *)
(* response interceptor, the store action awaiting it, the interceptor     *)
(* awaiting that action, ...) until each of them is waiting for the        *)
(* network again.  One action of the model is one such task.  Every call   *)
(* of an async function is a frame; frames[f].parent is the frame whose    *)
(* await receives f's result (0: application code, or nobody for a call    *)
(* that is not awaited).                                                   *)
(***************************************************************************)
EXTENDS Integers, Sequences, FiniteSets, TLC

\* Bounds of the model.
MaxFrames == 7
MaxCalls == 2
\* The frames of two requests racing through refresh and teardown.
MaxRaceFrames == 10
\* The calls made on the dashboard store.
MaxDashCalls == 3

\* null / undefined, and "no value yet" for the history fields.
Null == 0
NoVal == Null - 1

\* HTTP statuses the server answers with; 0 is "no response" (network error).
OK == 200
Unauthorized == 401
ServerError == 500
NoResponse == 0
Statuses == {OK, Unauthorized, ServerError, NoResponse}

\* The other statuses the interceptor tells apart (api.js lines 64, 69, 74, 80).
Forbidden == 403
NotFound == 404
TooManyRequests == 429
Unavailable == 503
AllStatuses == Statuses \cup {Forbidden, NotFound, TooManyRequests, Unavailable}

\* The retry-after header of an answer: absent, or present with its text.
NoHeader == [present |-> FALSE, value |-> ""]
RetryAfterHeaders ==
  {NoHeader} \cup {[present |-> TRUE, value |-> v] : v \in {"45", "0", ""}}

\* The detail of an answer's payload {detail: string}; "" when it has none.
Details == {"", "detail"}

\* The methods of apiClient (api.js lines 97-153); "direct": api itself.
ClientMethods == {"get", "post", "put", "delete"}

\* Query parameters are <<name, value>> pairs; the ones callers supply.
CallerParams == SUBSET {<<"days", "30">>, <<"_t", "mine">>}

\* The three sign-in operations of the store and their endpoints.
AuthKinds == {"login", "register", "facebook"}

NoErr == <<0, 0, 0>>
\* new Error('No refresh token available'): an error with no response.
ErrNoToken == <<0, 1, NoResponse>>

\* store: the auth store; defAuth: the token of api.defaults' Authorization
\* header (Null: none); frames: the calls made so far; redirects: how often
\* window.location.href was set to '/login'; srvTok: the last token the server
\* issued; calls: the number of calls made by the application; dash: the
\* dashboard store.
VARIABLES store, defAuth, frames, redirects, srvTok, calls, dash

vars == <<store, defAuth, frames, redirects, srvTok, calls, dash>>

World ==
  [store |-> store, defAuth |-> defAuth, frames |-> frames,
   redirects |-> redirects,
   srvTok |-> srvTok, dash |-> dash]

\* The pages a user can select (page.page_id), the date ranges <<start, end>>
\* in days, and the `days` a fetch asks for (part_003 line 39).
Pages == {1, 2}
Ranges == {<<0, 30>>, <<23, 30>>}
DaysOf(range) == range[2] - range[1]

\* response.data of GET /analytics/dashboard/<page>?days=<days>; NoData: null.
DataFor(page, days) == [page |-> page, days |-> days]
NoData == DataFor(Null, Null)

\* The dashboard store's initial state (part_003 lines 7-14).
EmptyDash ==
  [dashboardData |-> NoData, selectedPage |-> Null, dateRange |-> <<0, 30>>,
   isLoading |-> FALSE, error |-> ""]

\* The store's initial state (part_002 lines 10-14).
EmptyStore ==
  [user |-> Null, accessToken |-> Null, refreshToken |-> Null,
   isAuthenticated |-> FALSE, isLoading |-> FALSE]

\* Mutant of ClearedBy: the cleared state keeps the access token.
ClearedKeepsToken(s) ==
  [s EXCEPT !.user = Null, !.refreshToken = Null, !.isAuthenticated = FALSE,
            !.isLoading = FALSE]

\* logout's set({...}) (part_002 lines 126-132).
ClearedBy(s) ==
  [s EXCEPT !.user = Null, !.accessToken = Null, !.refreshToken = Null,
            !.isAuthenticated = FALSE, !.isLoading = FALSE]

\* A frame: one call of an async function; by is the frame whose code made the
\* call (0: application code), parent the frame that awaits it.
\*   api frames: one call api(config); url its endpoint, retry the config's
\*   _retry mark, sends the number of transmissions, hdr1/hdr2 the token of the
\*   Authorization header of the first / second transmission, st1/st2 the
\*   answers, rtRead the refresh token the interceptor read on a 401, childOut
\*   how the call it awaited (refreshAccessToken) ended, newTok the token that call
\*   returned, data the tokens of a 2xx payload.
\*   res/err: how the frame's promise settled; an error is
\*   <<api frame, transmission, status>>.
\*   sessTok: the store's accessToken when the request was first dispatched;
\*   body: the refresh_token a POST /auth/refresh carries; params: the query
\*   parameters the caller gave, sent1/sent2 those of each transmission;
\*   ra/det1/det2: the retry-after header of the last answer and the payload
\*   detail of each answer; toasts: the notifications the interceptor emitted
\*   for the request; via/result: the apiClient method that made the call and
\*   what it returned; ret: what a store action returned; page/days: the page
\*   and the days a fetchDashboardData call asks for.
NoResult == [success |-> FALSE, data |-> <<0, 0>>, error |-> "pending"]

Frame(kind, parent, by, url, hdr) ==
  [kind |-> kind, parent |-> parent, by |-> by, url |-> url,
   retry |-> FALSE, sends |-> IF kind = "api" THEN 1 ELSE 0,
   inflight |-> kind = "api", hdr1 |-> hdr, hdr2 |-> NoVal,
   st1 |-> NoVal, st2 |-> NoVal, rtRead |-> NoVal, childOut |-> "none",
   newTok |-> NoVal, data |-> Null, res |-> "pending", err |-> NoErr,
   sessTok |-> NoVal, body |-> Null, params |-> {}, sent1 |-> {},
   sent2 |-> {}, ra |-> NoHeader, det1 |-> "", det2 |-> "", toasts |-> <<>>,
   via |-> "direct", result |-> NoResult, ret |-> "none",
   page |-> Null, days |-> Null]

\* Mutant of RequestInterceptor: the timestamp replaces the parameters.
RequestInterceptorOnlyStamp(params) == {<<"_t", "now">>}

\* The request interceptor (api.js lines 17-26):
\* config.params = {...config.params, _t: Date.now()}.
RequestInterceptor(params) ==
  {q \in params : q[1] # "_t"} \cup {<<"_t", "now">>}

\* A new request made with the caller's query parameters, by apiClient's
\* method via or by api itself: it passes the request interceptor and is
\* dispatched with the default Authorization header of the moment (none when
\* defAuth is Null).
ApiCallWith(w, parent, url, params, via) ==
  [w EXCEPT !.frames =
     Append(@, [Frame("api", parent, parent, url, w.defAuth) EXCEPT
                  !.sessTok = w.store.accessToken,
                  !.body = IF url = "refresh" THEN w.store.refreshToken ELSE Null,
                  !.params = params, !.sent1 = RequestInterceptor(params),
                  !.via = via])]

\* api.post / api.get / api.put without query parameters.
ApiCall(w, parent, url) == ApiCallWith(w, parent, url, {}, "direct")

\* Endpoints whose 2xx payload carries {access_token, refresh_token, user}.
TokenUrls == {"login", "register", "facebook", "refresh"}

\* The Authorization header of a request that is issued again as
\* api(originalRequest) (api.js line 52).  originalRequest is error.config: the
\* configuration of the first transmission, whose headers already hold the
\* Authorization value that was merged in from api.defaults when it was first
\* dispatched.  The configuration's own header takes precedence over the
\* defaults, so the default header of the moment is used only when the first
\* transmission carried none.
RetryHeader(own, def) == IF own # Null THEN own ELSE def

SetFrame(w, f, fr) == [w EXCEPT !.frames[f] = fr]

\* logout() up to its first await (part_002 lines 116-119): POST /auth/logout.
\* Nobody awaits the calls made by refreshAccessToken and by the interceptor.
StartLogout(w, by) ==
  LET l == Len(w.frames) + 1
      w1 == [w EXCEPT !.frames = Append(@, Frame("logout", 0, by, "", NoVal))]
  IN ApiCall(w1, l, "logout")

RECURSIVE Settle(_, _, _, _)

\* Mutant of LogoutFinish: the state is cleared only when the POST succeeded.
LogoutFinishOnSuccess(w, l, res) ==
  LET w1 == IF res = "ok"
            THEN [w EXCEPT !.store = ClearedBy(@), !.defAuth = Null,
                           !.frames[l].childOut = res]
            ELSE [w EXCEPT !.frames[l].childOut = res]
  IN Settle(w1, l, "ok", NoErr)

\* logout after its await, whatever the POST's outcome (part_002 lines 120-137).
LogoutFinish(w, l, res) ==
  LET w1 == [w EXCEPT !.store = ClearedBy(@), !.defAuth = Null,
                      !.frames[l].childOut = res]
  IN Settle(w1, l, "ok", NoErr)

\* Mutant of RefreshSuccess: the default header keeps the old token.
RefreshSuccessNoHeader(w, r, tok) ==
  LET w1 == [w EXCEPT !.store.user = 1, !.store.accessToken = tok,
                      !.store.refreshToken = tok,
                      !.store.isAuthenticated = TRUE,
                      !.frames[r].childOut = "ok",
                      !.frames[r].newTok = tok]
  IN Settle(w1, r, "ok", NoErr)

\* refreshAccessToken after a 2xx answer (part_002 lines 152-164).  The payload's
\* access_token and refresh_token are one issue of the server: number tok.
RefreshSuccess(w, r, tok) ==
  LET w1 == [w EXCEPT !.store.user = 1, !.store.accessToken = tok,
                      !.store.refreshToken = tok,
                      !.store.isAuthenticated = TRUE,
                      !.defAuth = tok, !.frames[r].childOut = "ok",
                      !.frames[r].newTok = tok]
  IN Settle(w1, r, "ok", NoErr)

\* refreshAccessToken's catch (part_002 lines 166-170): logout(), not awaited,
\* and the error thrown on.
RefreshCatch(w, r, e) ==
  LET w1 == [w EXCEPT !.frames[r].childOut = "err"]
  IN Settle(StartLogout(w1, r), r, "err", e)

\* refreshAccessToken up to its await (part_002 lines 140-150).
StartRefresh(w, parent) ==
  LET r == Len(w.frames) + 1
      w1 == [w EXCEPT !.frames = Append(@, Frame("refresh", parent, parent, "", NoVal))]
  IN IF w1.store.refreshToken = Null
     THEN RefreshCatch(w1, r, ErrNoToken)
     ELSE ApiCall(w1, r, "refresh")

\* The interceptor after refreshAccessToken resolved (api.js lines 50-52): the
\* original request is issued again; the interceptor's promise takes the
\* outcome of that request.
RetryOriginal(w, f, tok) ==
  LET fr == w.frames[f]
  IN SetFrame(w, f, [fr EXCEPT !.childOut = "ok", !.newTok = tok,
                               !.sends = @ + 1, !.inflight = TRUE,
                               !.hdr2 = RetryHeader(fr.hdr1, w.defAuth),
                               !.sent2 = RequestInterceptor(fr.sent1)])

\* Mutant of InterceptorCatch: the original error is rejected.
InterceptorCatchOriginal(w, f, e) ==
  LET w1 == [StartLogout(w, f) EXCEPT
               !.redirects = @ + 1, !.frames[f].childOut = "err"]
  IN Settle(w1, f, "err", <<f, 1, w.frames[f].st1>>)

\* The interceptor's catch (api.js lines 54-60): logout(), not awaited, the
\* redirect, and the refresh error rejected.
InterceptorCatch(w, f, e) ==
  LET w1 == [StartLogout(w, f) EXCEPT
               !.redirects = @ + 1, !.frames[f].childOut = "err"]
  IN Settle(w1, f, "err", e)

\* Mutant of LoginFinish: a successful call does not set the default header.
LoginFinishNoHeader(w, g, res, tok) ==
  LET w1 == IF res = "ok"
            THEN [w EXCEPT !.store = [user |-> 1, accessToken |-> tok,
                                      refreshToken |-> tok,
                                      isAuthenticated |-> TRUE,
                                      isLoading |-> FALSE]]
            ELSE [w EXCEPT !.store.isLoading = FALSE]
  IN Settle([w1 EXCEPT !.frames[g].childOut = res,
                       !.frames[g].ret = IF res = "ok" THEN "success"
                                                      ELSE "failure"],
            g, "ok", NoErr)

\* Mutant of LoginFinish: a successful call leaves isLoading set.
LoginFinishKeepsLoading(w, g, res, tok) ==
  LET w1 == IF res = "ok"
            THEN [w EXCEPT !.store = [user |-> 1, accessToken |-> tok,
                                      refreshToken |-> tok,
                                      isAuthenticated |-> TRUE,
                                      isLoading |-> @.isLoading],
                           !.defAuth = tok]
            ELSE [w EXCEPT !.store.isLoading = FALSE]
  IN Settle([w1 EXCEPT !.frames[g].childOut = res,
                       !.frames[g].ret = IF res = "ok" THEN "success"
                                                      ELSE "failure"],
            g, "ok", NoErr)

\* login / register / loginWithFacebook after their await
\* (part_002 lines 26-47, 60-81, 92-113).
LoginFinish(w, g, res, tok) ==
  LET w1 == IF res = "ok"
            THEN [w EXCEPT !.store = [user |-> 1, accessToken |-> tok,
                                      refreshToken |-> tok,
                                      isAuthenticated |-> TRUE,
                                      isLoading |-> FALSE],
                           !.defAuth = tok]
            ELSE [w EXCEPT !.store.isLoading = FALSE]
  IN Settle([w1 EXCEPT !.frames[g].childOut = res,
                       !.frames[g].ret = IF res = "ok" THEN "success"
                                                      ELSE "failure"],
            g, "ok", NoErr)

\* updateProfile after its await (part_002 lines 177-188).
UpdateFinish(w, g, res) ==
  LET w1 == IF res = "ok" THEN [w EXCEPT !.store.user = 1] ELSE w
  IN Settle([w1 EXCEPT !.frames[g].childOut = res,
                       !.frames[g].ret = IF res = "ok" THEN "success"
                                                      ELSE "failure"],
            g, "ok", NoErr)

\* error.message: axios' message for a failed request, or the message of the
\* Error refreshAccessToken makes.
Message(e) ==
  IF e[1] = 0 THEN "No refresh token available"
  ELSE IF e[3] = NoResponse THEN "Network Error"
  ELSE "Request failed with status code"

\* error.response?.data?.detail of error e ("" when there is none).
DetailOf(w, e) ==
  IF e[1] = 0 \/ e[3] = NoResponse THEN ""
  ELSE IF e[2] = 1 THEN w.frames[e[1]].det1 ELSE w.frames[e[1]].det2

\* fetchDashboardData up to its await (part_003 lines 34-43).
StartFetch(w, page) ==
  LET g == Len(w.frames) + 1
      days == DaysOf(w.dash.dateRange)
      w1 == [w EXCEPT !.dash.isLoading = TRUE, !.dash.error = "",
                      !.frames = Append(@, [Frame("fetch", 0, 0, "", NoVal)
                                              EXCEPT !.page = page,
                                                     !.days = days])]
  IN ApiCallWith(w1, g, "dashboard", {<<"days", days>>}, "direct")

\* fetchDashboardData after its await (part_003 lines 45-57).
FetchFinish(w, g, res, e) ==
  LET fr == w.frames[g]
      w1 == IF res = "ok"
            THEN [w EXCEPT !.dash.dashboardData = DataFor(fr.page, fr.days),
                           !.dash.isLoading = FALSE]
            ELSE [w EXCEPT !.dash.error =
                             IF DetailOf(w, e) # "" THEN DetailOf(w, e)
                             ELSE "Failed to fetch dashboard data",
                           !.dash.isLoading = FALSE]
  IN Settle([w1 EXCEPT !.frames[g].childOut = res], g, "ok", NoErr)

\* The continuation of frame p when the call c it awaits has settled.
Resume(w, p, c, res, e) ==
  LET k == w.frames[p].kind
      tok == w.frames[c].data
  IN CASE k = "refresh" -> IF res = "ok" THEN RefreshSuccess(w, p, tok)
                                         ELSE RefreshCatch(w, p, e)
       [] k = "api"     -> IF res = "ok"
                           THEN RetryOriginal(w, p, w.frames[c].newTok)
                           ELSE InterceptorCatch(w, p, e)
       [] k = "logout"  -> LogoutFinish(w, p, res)
       [] k \in AuthKinds -> LoginFinish(w, p, res, tok)
       [] k = "fetch"   -> FetchFinish(w, p, res, e)
       [] OTHER         -> UpdateFinish(w, p, res)

\* Mutant of ClientResult: the error is always the error's message.
ClientResultMessage(w, f, res, e) ==
  IF res = "ok"
  THEN [success |-> TRUE, data |-> <<f, w.frames[f].sends>>, error |-> ""]
  ELSE [success |-> FALSE, data |-> <<0, 0>>, error |-> Message(e)]

\* What apiClient.get / post / put / delete return (api.js lines 99-152) when
\* the call api.<method> they await settled as res with error e: the payload of
\* the answer that resolved it, or the failure.
ClientResult(w, f, res, e) ==
  IF res = "ok"
  THEN [success |-> TRUE, data |-> <<f, w.frames[f].sends>>, error |-> ""]
  ELSE [success |-> FALSE, data |-> <<0, 0>>,
        error |-> IF DetailOf(w, e) # "" THEN DetailOf(w, e) ELSE Message(e)]

\* Frame f's promise settles; the frame awaiting it, if any, continues; a call
\* made by apiClient returns.
Settle(w, f, res, e) ==
  LET w1 == [w EXCEPT !.frames[f].res = res, !.frames[f].err = e]
      p == w.frames[f].parent
  IN IF p # 0 THEN Resume(w1, p, f, res, e)
     ELSE IF w.frames[f].via = "direct" THEN w1
     ELSE [w1 EXCEPT !.frames[f].result = ClientResult(w1, f, res, e)]

\* Mutant of MarkRetry: the request is not marked.
MarkRetryNot(fr) == fr

\* originalRequest._retry = true (api.js line 42).
MarkRetry(fr) == [fr EXCEPT !.retry = TRUE]

\* Mutant of Toasts: a missing retry-after header is not replaced.
ToastsNoDefault(st, h) ==
  (IF st = Forbidden THEN <<[class |-> "forbidden", secs |-> ""]>> ELSE <<>>)
  \o (IF st = NotFound THEN <<[class |-> "notfound", secs |-> ""]>> ELSE <<>>)
  \o (IF st = TooManyRequests
      THEN <<[class |-> "ratelimited", secs |-> h.value]>>
      ELSE <<>>)
  \o (IF st # NoResponse /\ st >= ServerError
      THEN <<[class |-> "server", secs |-> ""]>> ELSE <<>>)
  \o (IF st = NoResponse THEN <<[class |-> "network", secs |-> ""]>> ELSE <<>>)

\* Mutant of Toasts: an error without a response counts as a server error too.
ToastsNoResponseCheck(st, h) ==
  (IF st = Forbidden THEN <<[class |-> "forbidden", secs |-> ""]>> ELSE <<>>)
  \o (IF st = NotFound THEN <<[class |-> "notfound", secs |-> ""]>> ELSE <<>>)
  \o (IF st = TooManyRequests
      THEN <<[class |-> "ratelimited",
              secs |-> IF h.present /\ h.value # "" THEN h.value ELSE "60"]>>
      ELSE <<>>)
  \o (IF st = NoResponse \/ st >= ServerError
      THEN <<[class |-> "server", secs |-> ""]>> ELSE <<>>)
  \o (IF st = NoResponse THEN <<[class |-> "network", secs |-> ""]>> ELSE <<>>)

\* The notifications of api.js lines 63-87 for an error with status st
\* (NoResponse: error.response is undefined) and retry-after header h, one
\* `if` after the other.  A header is a string: retryAfter || 60 takes 60 when
\* the header is absent or empty.
Toasts(st, h) ==
  (IF st = Forbidden THEN <<[class |-> "forbidden", secs |-> ""]>> ELSE <<>>)
  \o (IF st = NotFound THEN <<[class |-> "notfound", secs |-> ""]>> ELSE <<>>)
  \o (IF st = TooManyRequests
      THEN <<[class |-> "ratelimited",
              secs |-> IF h.present /\ h.value # "" THEN h.value ELSE "60"]>>
      ELSE <<>>)
  \o (IF st # NoResponse /\ st >= ServerError
      THEN <<[class |-> "server", secs |-> ""]>> ELSE <<>>)
  \o (IF st = NoResponse THEN <<[class |-> "network", secs |-> ""]>> ELSE <<>>)

\* The interceptor's handling below its 401 block (api.js lines 63-89): the
\* notifications, and the error rejected.
NotifyAndReject(w, f, e) ==
  Settle([w EXCEPT !.frames[f].toasts = @ \o Toasts(e[3], w.frames[f].ra)],
         f, "err", e)

\* Mutant of OnRejected: without a refresh token the interceptor logs out and
\* redirects as it does when the refresh fails.
OnRejectedLogsOut(w, f, e) ==
  LET fr == w.frames[f]
  IN IF e[3] = Unauthorized /\ ~fr.retry
     THEN LET w1 == SetFrame(w, f, [MarkRetry(fr) EXCEPT
                                      !.rtRead = w.store.refreshToken])
          IN IF w1.store.refreshToken # Null
             THEN StartRefresh(w1, f)
             ELSE InterceptorCatch(w1, f, e)
     ELSE NotifyAndReject(w, f, e)

\* The response interceptor's error handler (api.js lines 37-90) for the
\* error e of api frame f.  The assignment to window.location.href does not
\* stop the calls in progress.
OnRejected(w, f, e) ==
  LET fr == w.frames[f]
  IN IF e[3] = Unauthorized /\ ~fr.retry
     THEN LET w1 == SetFrame(w, f, [MarkRetry(fr) EXCEPT
                                      !.rtRead = w.store.refreshToken])
          IN IF w1.store.refreshToken # Null
             THEN StartRefresh(w1, f)
             ELSE NotifyAndReject(w1, f, e)
     ELSE NotifyAndReject(w, f, e)

Init ==
  /\ \E persisted \in BOOLEAN :
       /\ store = IF persisted
                  THEN [user |-> 1, accessToken |-> 1, refreshToken |-> 1,
                        isAuthenticated |-> TRUE, isLoading |-> FALSE]
                  ELSE EmptyStore
       /\ defAuth = IF persisted THEN 1 ELSE Null
  /\ frames = <<>>
  /\ redirects = 0
  /\ srvTok = 1
  /\ calls = 0
  /\ dash = EmptyDash

CommitWithin(w, n) ==
  /\ Len(w.frames) <= n
  /\ store' = w.store
  /\ defAuth' = w.defAuth
  /\ frames' = w.frames
  /\ redirects' = w.redirects
  /\ srvTok' = w.srvTok
  /\ dash' = w.dash

Commit(w) == CommitWithin(w, MaxFrames)

\* Application code calls api.get on a data endpoint.
CallApi ==
  /\ calls < MaxCalls
  /\ calls' = calls + 1
  /\ Commit(ApiCall(World, 0, "data"))

\* login, register or loginWithFacebook is called (part_002 lines 17-24).
CallLogin ==
  /\ calls < MaxCalls
  /\ calls' = calls + 1
  /\ \E k \in AuthKinds :
       LET g == Len(frames) + 1
           w1 == [World EXCEPT !.store.isLoading = TRUE,
                               !.frames = Append(@, Frame(k, 0, 0, "", NoVal))]
       IN Commit(ApiCall(w1, g, k))

\* logout is called by the application.
CallLogout ==
  /\ calls < MaxCalls
  /\ calls' = calls + 1
  /\ Commit(StartLogout(World, 0))

\* refreshAccessToken is called by the application.
CallRefresh ==
  /\ calls < MaxCalls
  /\ calls' = calls + 1
  /\ Commit(StartRefresh(World, 0))

\* updateProfile is called (part_002 lines 173-175).
CallUpdateProfile ==
  /\ calls < MaxCalls
  /\ calls' = calls + 1
  /\ LET g == Len(frames) + 1
         w1 == [World EXCEPT !.frames = Append(@, Frame("update", 0, 0, "", NoVal))]
     IN Commit(ApiCall(w1, g, "profile"))

\* initialize (part_002 lines 192-200).
Initialize ==
  /\ store.accessToken # Null
  /\ defAuth' = store.accessToken
  /\ store' = [store EXCEPT !.isAuthenticated = TRUE]
  /\ UNCHANGED <<frames, redirects, srvTok, calls, dash>>

\* The task that runs when transmission frames[f].sends of api frame f is
\* answered with status st (NoResponse: the request fails without an answer),
\* retry-after header h and payload detail d.
Answer(f, st, h, d) ==
  LET fr == frames[f]
      issues == st = OK /\ fr.url \in TokenUrls
      tok == srvTok + 1
      w1 == [World EXCEPT !.frames[f].inflight = FALSE,
                          !.frames[f].st1 = IF fr.sends = 1 THEN st ELSE @,
                          !.frames[f].st2 = IF fr.sends > 1 THEN st ELSE @,
                          !.frames[f].ra = h,
                          !.frames[f].det1 = IF fr.sends = 1 THEN d ELSE @,
                          !.frames[f].det2 = IF fr.sends > 1 THEN d ELSE @,
                          !.frames[f].data = IF issues THEN tok ELSE @,
                          !.srvTok = IF issues THEN tok ELSE @]
  IN IF st = OK THEN Settle(w1, f, "ok", NoErr)
                ELSE OnRejected(w1, f, <<f, fr.sends, st>>)

\* The server answers api frame f with status st.
Respond(f, st) ==
  /\ frames[f].inflight
  /\ Commit(Answer(f, st, NoHeader, ""))
  /\ UNCHANGED calls

Next ==
  \/ CallApi
  \/ CallLogin
  \/ CallLogout
  \/ CallRefresh
  \/ CallUpdateProfile
  \/ Initialize
  \/ \E f \in DOMAIN frames : \E st \in Statuses : Respond(f, st)

Spec == Init /\ [][Next]_vars

(***************************************************************************)
(* One request on an idle client, made through apiClient or api with the  *)
(* caller's query parameters, under a server that may answer with any of  *)
(* the statuses the interceptor tells apart, with or without a            *)
(* retry-after header and a payload detail.                               *)
(***************************************************************************)
HttpCall ==
  /\ frames = <<>>
  /\ calls' = calls + 1
  /\ \E via \in ClientMethods \cup {"direct"} : \E params \in CallerParams :
       Commit(ApiCallWith(World, 0, "data", params, via))

HttpRespond(f) ==
  /\ frames[f].inflight
  /\ \E st \in AllStatuses :
       \E h \in IF st = TooManyRequests THEN RetryAfterHeaders ELSE {NoHeader} :
         \E d \in IF st \in {OK, NoResponse} THEN {""} ELSE Details :
           Commit(Answer(f, st, h, d))
  /\ UNCHANGED calls

NextHttp ==
  \/ HttpCall
  \/ \E f \in DOMAIN frames : HttpRespond(f)

SpecHttp == Init /\ [][NextHttp]_vars

(***************************************************************************)
(* Data requests under a server that rotates refresh tokens: a POST        *)
(* /auth/refresh is accepted exactly when its body carries the refresh    *)
(* token issued last, and refused with 401 or 403 otherwise.              *)
(***************************************************************************)
RotatingAnswers(f) ==
  IF frames[f].url = "refresh"
  THEN IF frames[f].body = srvTok THEN {OK} ELSE {Unauthorized, Forbidden}
  ELSE Statuses

RaceCall ==
  /\ calls < MaxCalls
  /\ calls' = calls + 1
  /\ CommitWithin(ApiCall(World, 0, "data"), MaxRaceFrames)

RaceRespond(f) ==
  /\ frames[f].inflight
  /\ \E st \in RotatingAnswers(f) :
       CommitWithin(Answer(f, st, NoHeader, ""), MaxRaceFrames)
  /\ UNCHANGED calls

NextRotate ==
  \/ RaceCall
  \/ \E f \in DOMAIN frames : RaceRespond(f)

SpecRotate == Init /\ [][NextRotate]_vars

(***************************************************************************)
(* The dashboard store: pages and date ranges are selected and the        *)
(* dashboard cleared while the fetches made for them are answered.        *)
(***************************************************************************)
\* setSelectedPage (part_003 lines 17-23); page Null: no page.
SetSelectedPage ==
  /\ calls < MaxDashCalls
  /\ calls' = calls + 1
  /\ \E page \in Pages \cup {Null} :
       LET w1 == [World EXCEPT !.dash.selectedPage = page]
       IN Commit(IF page # Null THEN StartFetch(w1, page) ELSE w1)

\* setDateRange (part_003 lines 25-32).
SetDateRange ==
  /\ calls < MaxDashCalls
  /\ calls' = calls + 1
  /\ \E range \in Ranges :
       LET w1 == [World EXCEPT !.dash.dateRange = range]
       IN Commit(IF w1.dash.selectedPage # Null
                 THEN StartFetch(w1, w1.dash.selectedPage) ELSE w1)

\* clearDashboard (part_003 lines 60-66).
ClearDashboard ==
  /\ calls < MaxDashCalls
  /\ calls' = calls + 1
  /\ Commit([World EXCEPT !.dash.dashboardData = NoData,
                          !.dash.selectedPage = Null, !.dash.error = ""])

NextDash ==
  \/ SetSelectedPage
  \/ SetDateRange
  \/ ClearDashboard
  \/ \E f \in DOMAIN frames : \E st \in Statuses : Respond(f, st)

SpecDash == Init /\ [][NextDash]_vars
(***************************************************************************)
(* Vocabulary of the properties.                                           *)
(***************************************************************************)
Frames == DOMAIN frames
IsApi(f) == frames[f].kind = "api"
Settled(f) == frames[f].res # "pending"

\* The session is torn down: the four session fields are cleared.
SessionCleared(s) ==
  /\ s.user = Null
  /\ s.accessToken = Null
  /\ s.refreshToken = Null
  /\ ~s.isAuthenticated

\* The refreshAccessToken call that api frame f's interceptor awaits.
RefreshOf(f) == {r \in Frames : frames[r].kind = "refresh" /\ frames[r].parent = f}

\* Frame g is f, or is awaited (directly or through other calls) by f.
RECURSIVE Under(_, _)
Under(g, f) ==
  \/ g = f
  \/ frames[g].parent # 0 /\ Under(frames[g].parent, f)

\* The /auth/refresh calls issued while handling api frame f.
RefreshCallsFor(f) ==
  {p \in Frames : IsApi(p) /\ frames[p].url = "refresh" /\ p # f /\ Under(p, f)}

\* A logout call started in this step.
LogoutStarted ==
  \E l \in DOMAIN frames' \ DOMAIN frames : frames'[l].kind = "logout"

\* Api frame f was in flight and this step delivered its answer.
Answered(f) == frames[f].inflight /\ Len(frames') >= f /\
               (frames'[f].sends > frames[f].sends \/ ~frames'[f].inflight)

(***************************************************************************)
(* C1: a request answered 401 on its first attempt while the session holds *)
(* a refresh token, and whose refresh succeeds, has been transmitted       *)
(* exactly twice, and its promise takes the outcome of the second          *)
(* transmission: pending while it is in flight, resolved when it is        *)
(* answered 2xx, rejected with that answer's error otherwise.              *)
(***************************************************************************)
C1_RetriedOnceAfterRefresh ==
  \A f \in Frames :
    (IsApi(f) /\ frames[f].st1 = Unauthorized /\ frames[f].rtRead > Null
       /\ frames[f].childOut = "ok")
    => /\ frames[f].sends = 2
       /\ frames[f].inflight => (frames[f].res = "pending" /\ frames[f].st2 = NoVal)
       /\ (~frames[f].inflight /\ frames[f].st2 = OK) => frames[f].res = "ok"
       /\ (~frames[f].inflight /\ frames[f].st2 # OK)
            => (frames[f].res = "err" /\ frames[f].err = <<f, 2, frames[f].st2>>)

C1_Witness ==
  \E f \in Frames :
    /\ IsApi(f) /\ frames[f].url = "data"
    /\ frames[f].st1 = Unauthorized /\ frames[f].rtRead > Null
    /\ frames[f].childOut = "ok" /\ frames[f].sends = 2
    /\ frames[f].st2 = OK /\ frames[f].res = "ok"

(***************************************************************************)
(* C2: a request issued again after a successful refresh carries, in its   *)
(* Authorization header, the access token that refresh returned.           *)
(***************************************************************************)
C2_RetryCarriesNewToken ==
  \A f \in Frames :
    (IsApi(f) /\ frames[f].sends >= 2) => frames[f].hdr2 = frames[f].newTok

(***************************************************************************)
(* C3: when the retry of a request (first answer 401, refresh succeeded)   *)
(* is answered 401 too, the request is rejected and the session is torn    *)
(* down: cleared, or a logout that will clear it has been started.         *)
(***************************************************************************)
C3_SecondUnauthorizedTearsDown ==
  [][\A f \in Frames :
       (IsApi(f) /\ frames[f].sends = 2 /\ frames[f].childOut = "ok"
          /\ Answered(f) /\ frames'[f].st2 = Unauthorized)
       => /\ frames'[f].res = "err"
          /\ SessionCleared(store') \/ LogoutStarted]_vars

(***************************************************************************)
(* C4 (as claimed): when a request is answered 401 and the session holds   *)
(* no refresh token, a logout is started, the redirect to /login is made,  *)
(* and the request is rejected with its own 401 error.                     *)
(***************************************************************************)
C4_NoRefreshTokenLogsOut ==
  [][\A f \in Frames :
       (IsApi(f) /\ frames[f].sends = 1 /\ Answered(f)
          /\ frames'[f].st1 = Unauthorized /\ store.refreshToken = Null)
       => /\ frames'[f].res = "err"
          /\ frames'[f].err = <<f, 1, Unauthorized>>
          /\ LogoutStarted
          /\ redirects' = redirects + 1]_vars

(***************************************************************************)
(* C4 (amended): when a request is answered 401 and the session holds no   *)
(* refresh token, the interceptor rejects the request with its own 401     *)
(* error without starting a refresh, a retry or a logout; after a request  *)
(* of the application nothing else has happened in that step: no call was  *)
(* started, no redirect made, and the session and the default header are   *)
(* as they were.                                                           *)
(***************************************************************************)
C4_NoRefreshTokenOnlyRejects ==
  [][\A f \in Frames :
       (IsApi(f) /\ frames[f].sends = 1 /\ Answered(f)
          /\ frames'[f].st1 = Unauthorized /\ store.refreshToken = Null)
       => /\ frames'[f].res = "err"
          /\ frames'[f].err = <<f, 1, Unauthorized>>
          /\ frames'[f].sends = 1
          /\ \A g \in DOMAIN frames' \ DOMAIN frames : frames'[g].by # f
          /\ frames[f].parent = 0
               => /\ Len(frames') = Len(frames)
                  /\ redirects' = redirects
                  /\ store' = store
                  /\ defAuth' = defAuth]_vars

C4_Witness ==
  \E f \in Frames :
    /\ IsApi(f) /\ frames[f].parent = 0
    /\ frames[f].st1 = Unauthorized /\ frames[f].rtRead = Null
    /\ frames[f].res = "err" /\ frames[f].err = <<f, 1, Unauthorized>>
    /\ redirects = 0

(***************************************************************************)
(* C5: when the /auth/refresh call made for a request answered 401 is      *)
(* answered with a non-2xx status or not at all, the request is never      *)
(* resolved; once it has settled it is rejected, the redirect to /login    *)
(* has been made and a logout has been started.                            *)
(***************************************************************************)
C5_FailedRefreshForcesLogout ==
  \A p \in Frames :
    (IsApi(p) /\ frames[p].url = "refresh" /\ frames[p].st1 \notin {NoVal, OK}
       /\ frames[frames[p].parent].parent # 0)
    => LET g == frames[frames[p].parent].parent
       IN /\ frames[g].res # "ok"
          /\ frames[g].res = "err"
               => /\ redirects > 0
                  /\ \E l \in Frames : frames[l].kind = "logout"

(***************************************************************************)
(* C6 (as claimed): when the refresh triggered by a 401 fails, the request *)
(* is rejected with its own 401 error.                                     *)
(***************************************************************************)
C6_RejectsWithOriginalError ==
  \A f \in Frames :
    (IsApi(f) /\ frames[f].childOut = "err")
    => (frames[f].res = "err" /\ frames[f].err = <<f, 1, Unauthorized>>)

(***************************************************************************)
(* C6 (amended): when the refresh triggered by a 401 fails, the request is *)
(* rejected with the error refreshAccessToken threw, which is never the    *)
(* request's own 401 error.                                                *)
(***************************************************************************)
C6_RejectsWithRefreshError ==
  \A f \in Frames :
    (IsApi(f) /\ frames[f].childOut = "err")
    => /\ frames[f].res = "err"
       /\ \A r \in RefreshOf(f) :
            frames[r].res = "err" /\ frames[f].err = frames[r].err
       /\ frames[f].err[1] # f

C6_Witness ==
  \E f \in Frames :
    /\ IsApi(f) /\ frames[f].url = "data" /\ frames[f].childOut = "err"
    /\ frames[f].res = "err" /\ frames[f].err[3] = ServerError
    /\ RefreshOf(f) # {}

(***************************************************************************)
(* C7: a request of the application is transmitted at most twice, and at   *)
(* most one /auth/refresh call is issued while it is handled.              *)
(***************************************************************************)
C7_AtMostOneRefresh ==
  \A f \in Frames :
    (IsApi(f) /\ frames[f].parent = 0)
    => /\ frames[f].sends <= 2
       /\ Cardinality(RefreshCallsFor(f)) <= 1

(***************************************************************************)
(* C8: the retry mark bounds the chain of calls a request can cause, so    *)
(* that every call settles once the server has answered.  Stated for a     *)
(* finite run: the calls awaiting one another never form a chain that is   *)
(* as long as the model lets it grow.                                      *)
(***************************************************************************)
C8_ChainBounded ==
  ~ /\ Len(frames) = MaxFrames
    /\ \A f \in Frames : ~Settled(f) /\ Under(f, 1)

(***************************************************************************)
(* C9: in the step that completes a logout call, the session fields are    *)
(* cleared and the default Authorization header is removed, whatever the   *)
(* outcome of POST /auth/logout.                                           *)
(***************************************************************************)
C9_LogoutClears ==
  [][\A l \in Frames :
       (frames[l].kind = "logout" /\ ~Settled(l) /\ frames'[l].res # "pending")
       => (SessionCleared(store') /\ defAuth' = Null)]_vars

C9_Witness ==
  \E l \in Frames :
    /\ frames[l].kind = "logout" /\ Settled(l) /\ frames[l].childOut = "err"
    /\ \E p \in Frames : frames[p].parent = l /\ frames[p].st1 = NoResponse
    /\ SessionCleared(store) /\ defAuth = Null

(***************************************************************************)
(* C10: accessToken is non-null only if isAuthenticated is true.           *)
(***************************************************************************)
C10_TokenImpliesAuthenticated ==
  store.accessToken # Null => store.isAuthenticated

C10_Witness ==
  /\ store.accessToken # Null /\ store.isAuthenticated
  /\ \E l \in Frames : frames[l].kind = "logout" /\ Settled(l)
  /\ \E r \in Frames : frames[r].kind = "refresh" /\ frames[r].res = "ok" /\ r < Len(frames)

(***************************************************************************)
(* C11: the first transmission of every request carries as its only       *)
(* Authorization header the access token the store held when the request  *)
(* was dispatched, and no Authorization header when the store held none.  *)
(***************************************************************************)
C11_FirstDispatchCarriesSessionToken ==
  \A f \in Frames : IsApi(f) => frames[f].hdr1 = frames[f].sessTok

C11_Witness ==
  /\ \E f \in Frames :
       IsApi(f) /\ frames[f].sessTok > 1 /\ frames[f].hdr1 = frames[f].sessTok
  /\ \E f \in Frames :
       IsApi(f) /\ frames[f].sessTok = Null /\ frames[f].hdr1 = Null

(***************************************************************************)
(* C12: at most one POST /auth/refresh is in flight at any time.           *)
(***************************************************************************)
RefreshInFlight ==
  {p \in Frames : IsApi(p) /\ frames[p].url = "refresh" /\ frames[p].inflight}

C12_SingleRefreshInFlight ==
  \A p, q \in RefreshInFlight : p = q

(***************************************************************************)
(* C13: isAuthenticated turns true only in a step that completes a        *)
(* successful login, register or loginWithFacebook, or in initialize; in  *)
(* any other step a session that was not authenticated stays so and      *)
(* gains no token.                                                         *)
(***************************************************************************)
LoginCompleted ==
  \E g \in Frames :
    /\ frames[g].kind \in AuthKinds
    /\ ~Settled(g) /\ frames'[g].childOut = "ok"

InitializeStep ==
  /\ store.accessToken # Null
  /\ UNCHANGED <<frames, redirects, srvTok, calls>>

C13_RefreshNeverCreatesSession ==
  [][(~store.isAuthenticated /\ ~LoginCompleted /\ ~InitializeStep)
       => (~store'.isAuthenticated /\ store'.accessToken = store.accessToken
           /\ store'.refreshToken = store.refreshToken)]_vars

\* The status of the answer that this step delivered to api frame f, and of
\* the last answer f has received.
AnsweredStatus(f) ==
  IF frames[f].sends = 1 THEN frames'[f].st1 ELSE frames'[f].st2
LastStatus(f) ==
  IF frames[f].sends = 1 THEN frames[f].st1 ELSE frames[f].st2

\* The failures the interceptor notifies, and the class of each.
NotifiedStatuses == AllStatuses \ {OK, Unauthorized}
ClassOf(st) ==
  CASE st = Forbidden -> "forbidden"
    [] st = NotFound -> "notfound"
    [] st = TooManyRequests -> "ratelimited"
    [] st = NoResponse -> "network"
    [] OTHER -> "server"

\* The notifications this step emitted for api frame f.
NewToasts(f) ==
  SubSeq(frames'[f].toasts, Len(frames[f].toasts) + 1, Len(frames'[f].toasts))

(***************************************************************************)
(* C14: in the step that delivers a 403, 404, 429, 5xx or no response to  *)
(* a request, exactly one notification is emitted, of the class of that   *)
(* failure, and the request is rejected with that same error; a network   *)
(* notification is emitted exactly when the error has no response.        *)
(***************************************************************************)
C14_OneNotificationPerFailure ==
  [][\A f \in Frames :
       (IsApi(f) /\ Answered(f)) =>
         LET st == AnsweredStatus(f)
             new == NewToasts(f)
         IN /\ st \in NotifiedStatuses =>
                 /\ Len(new) = 1
                 /\ new[1].class = ClassOf(st)
                 /\ frames'[f].res = "err"
                 /\ frames'[f].err = <<f, frames[f].sends, st>>
            /\ (\E i \in DOMAIN new : new[i].class = "network")
                 <=> st = NoResponse]_vars

C14_Witness ==
  /\ \E f \in Frames :
       /\ IsApi(f) /\ frames[f].st1 = Unavailable /\ frames[f].res = "err"
       /\ frames[f].toasts = <<[class |-> "server", secs |-> ""]>>
  /\ \E f \in Frames :
       /\ IsApi(f) /\ frames[f].st1 = NoResponse /\ frames[f].res = "err"
       /\ frames[f].toasts = <<[class |-> "network", secs |-> ""]>>

(***************************************************************************)
(* C15: the notification for a 429 states the seconds of the answer's     *)
(* retry-after header when the header gives them, and 60 when the answer  *)
(* has no such header.                                                     *)
(***************************************************************************)
C15_RetryAfterOrSixty ==
  \A f \in Frames :
    (IsApi(f) /\ ~frames[f].inflight /\ LastStatus(f) = TooManyRequests) =>
      LET h == frames[f].ra
          t == frames[f].toasts[Len(frames[f].toasts)]
      IN /\ frames[f].toasts # <<>>
         /\ t.class = "ratelimited"
         /\ (h.present /\ h.value # "") => t.secs = h.value
         /\ ~h.present => t.secs = "60"

C15_Witness ==
  /\ \E f \in Frames :
       /\ IsApi(f) /\ frames[f].st1 = TooManyRequests /\ ~frames[f].ra.present
       /\ frames[f].toasts = <<[class |-> "ratelimited", secs |-> "60"]>>
  /\ \E f \in Frames :
       /\ IsApi(f) /\ frames[f].st1 = TooManyRequests
       /\ frames[f].ra = [present |-> TRUE, value |-> "0"]
       /\ frames[f].toasts = <<[class |-> "ratelimited", secs |-> "0"]>>

(***************************************************************************)
(* C16: a call made through apiClient.get, post, put or delete always     *)
(* returns: {data, success: true} with the payload exactly when the       *)
(* underlying request, after any refresh and retry, resolved; otherwise   *)
(* {data: null, success: false, error} where error is the detail of the   *)
(* error's payload when it has one and the error's message otherwise.     *)
(***************************************************************************)
C16_ClientNeverRejects ==
  \A f \in Frames :
    (IsApi(f) /\ frames[f].via \in ClientMethods) =>
      LET r == frames[f].result
          e == frames[f].err
          detail == IF e[1] = 0 \/ e[3] = NoResponse THEN ""
                    ELSE IF e[2] = 1 THEN frames[e[1]].det1
                    ELSE frames[e[1]].det2
      IN /\ ~Settled(f) <=> r = NoResult
         /\ frames[f].res = "ok" =>
              r = [success |-> TRUE, data |-> <<f, frames[f].sends>>,
                   error |-> ""]
         /\ frames[f].res = "err" =>
              /\ ~r.success /\ r.data = <<0, 0>>
              /\ detail # "" => r.error = detail
              /\ detail = "" => r.error = Message(e)

C16_Witness ==
  \E f \in Frames :
    /\ IsApi(f) /\ frames[f].via = "put" /\ frames[f].sends > 1
    /\ frames[f].res = "err" /\ frames[f].st2 = NotFound
    /\ frames[f].result.error = "detail"

\* The payload the server returned to the POST that store call g awaited.
PayloadOf(g) ==
  LET p == CHOOSE p \in DOMAIN frames' : frames'[p].parent = g
  IN frames'[p].data

(***************************************************************************)
(* C17: the step that completes a successful login, register or           *)
(* loginWithFacebook leaves the store with the user and the tokens of the *)
(* server's answer, isAuthenticated true and isLoading false, the default *)
(* Authorization header set to the new access token, and returns          *)
(* {success: true}; the step that completes a successful                   *)
(* refreshAccessToken leaves the store with the tokens of the refresh     *)
(* answer.                                                                 *)
(***************************************************************************)
C17_SuccessInstallsReturnedTokens ==
  [][/\ \A g \in Frames :
          (frames[g].kind \in AuthKinds /\ ~Settled(g)
             /\ frames'[g].childOut = "ok") =>
            /\ store' = [user |-> 1, accessToken |-> PayloadOf(g),
                         refreshToken |-> PayloadOf(g),
                         isAuthenticated |-> TRUE, isLoading |-> FALSE]
            /\ PayloadOf(g) = srvTok'
            /\ defAuth' = PayloadOf(g)
            /\ frames'[g].ret = "success"
     /\ \A r \in Frames :
          (frames[r].kind = "refresh" /\ ~Settled(r) /\ frames'[r].res = "ok") =>
            /\ store'.accessToken = PayloadOf(r)
            /\ store'.refreshToken = PayloadOf(r)
            /\ PayloadOf(r) = srvTok']_vars

C17_Witness ==
  /\ \E g \in Frames :
       /\ frames[g].kind = "facebook" /\ frames[g].ret = "success"
       /\ \E p \in Frames : frames[p].parent = g /\ frames[p].data = srvTok
  /\ \E r \in Frames : frames[r].kind = "refresh" /\ frames[r].res = "ok"
  /\ store.accessToken = srvTok /\ store.refreshToken = srvTok
  /\ store.isAuthenticated /\ ~store.isLoading /\ defAuth = srvTok

\* The names of a set of query parameters.
Names(params) == {q[1] : q \in params}

\* The query parameters of every transmission api frame f has made.
Transmissions(f) ==
  {frames[f].sent1} \cup (IF frames[f].sends > 1 THEN {frames[f].sent2} ELSE {})

(***************************************************************************)
(* C18 as stated: every transmission, retries included, carries a _t      *)
(* query parameter and every query parameter the caller supplied, with    *)
(* the caller's value.                                                     *)
(***************************************************************************)
C18_StampKeepsEveryCallerParam ==
  \A f \in Frames : IsApi(f) =>
    \A sent \in Transmissions(f) :
      /\ "_t" \in Names(sent)
      /\ frames[f].params \subseteq sent

(***************************************************************************)
(* C18 amended: every transmission, retries included, carries exactly one *)
(* _t query parameter, set by the client, and besides it exactly the      *)
(* caller's query parameters not named _t, with the caller's values.      *)
(***************************************************************************)
C18_StampKeepsOtherCallerParams ==
  \A f \in Frames : IsApi(f) =>
    \A sent \in Transmissions(f) :
      /\ {q \in sent : q[1] = "_t"} = {<<"_t", "now">>}
      /\ {q \in sent : q[1] # "_t"} = {q \in frames[f].params : q[1] # "_t"}

C18_Witness ==
  \E f \in Frames :
    /\ IsApi(f) /\ frames[f].sends > 1
    /\ frames[f].params = {<<"days", "30">>, <<"_t", "mine">>}
    /\ frames[f].sent2 = {<<"days", "30">>, <<"_t", "now">>}

\* Requests f and g were answered 401 while both were in flight: g was
\* dispatched before f's answer started f's refresh, and answered 401 too.
BothUnauthorizedInFlight(f, g) ==
  /\ IsApi(f) /\ IsApi(g) /\ f < g
  /\ frames[f].parent = 0 /\ frames[g].parent = 0
  /\ frames[f].st1 = Unauthorized /\ frames[g].st1 = Unauthorized
  /\ \E r \in RefreshOf(f) : g < r

\* The tokens of the refresh calls of f and g that succeeded.
RefreshedTokens(f, g) ==
  {frames[r].newTok : r \in {r \in RefreshOf(f) \cup RefreshOf(g) : frames[r].res = "ok"}}

(***************************************************************************)
(* C19: under a server that rotates refresh tokens, once one of the       *)
(* refresh calls of two requests answered 401 while both in flight has    *)
(* succeeded, no logout is started and no redirect made, and the session  *)
(* is authenticated with the tokens of a successful refresh.              *)
(***************************************************************************)
C19_RaceKeepsSession ==
  \A f, g \in Frames :
    (BothUnauthorizedInFlight(f, g) /\ RefreshedTokens(f, g) # {}) =>
      /\ \A l \in Frames : frames[l].kind # "logout"
      /\ redirects = 0
      /\ store.isAuthenticated
      /\ store.accessToken \in RefreshedTokens(f, g)

(***************************************************************************)
(* C20: a step in which the interceptor redirects to /login ends with the *)
(* session fields of the store cleared and the default Authorization      *)
(* header removed.                                                         *)
(***************************************************************************)
C20_ClearedBeforeRedirect ==
  [][redirects' > redirects
       => (SessionCleared(store') /\ defAuth' = Null)]_vars

(***************************************************************************)
(* C21: between tasks the default Authorization header is present exactly *)
(* when the store's accessToken is non-null, and then carries that token. *)
(***************************************************************************)
C21_DefaultHeaderAgreesWithStore ==
  /\ defAuth # Null <=> store.accessToken # Null
  /\ defAuth = store.accessToken

C21_Witness ==
  /\ defAuth = store.accessToken /\ defAuth = srvTok /\ srvTok > 1
  /\ \E l \in Frames : frames[l].kind = "logout" /\ Settled(l)
  /\ \E g \in Frames : frames[g].kind \in AuthKinds /\ frames[g].ret = "success"

\* The logout calls made because refreshAccessToken call r failed: by its
\* own catch, and by the catch of the interceptor that awaited it.
LogoutsFor(r) ==
  {l \in Frames :
     /\ frames[l].kind = "logout"
     /\ \/ frames[l].by = r
        \/ frames[r].parent # 0 /\ frames[l].by = frames[r].parent}

(***************************************************************************)
(* C22: every refreshAccessToken call that failed has caused exactly one  *)
(* logout call, hence one POST /auth/logout.                              *)
(***************************************************************************)
C22_OneLogoutPerFailedRefresh ==
  \A r \in Frames :
    (frames[r].kind = "refresh" /\ frames[r].res = "err") =>
      \E l \in LogoutsFor(r) : LogoutsFor(r) = {l}

\* Login call g is the only call the application has made.
OnlyCall(g) == \A h \in Frames : (frames[h].by = 0) => h = g

\* The POST that store call g made.
PostOf(g) == CHOOSE p \in Frames : frames[p].parent = g

(***************************************************************************)
(* C23: the step that completes a failed login, register or               *)
(* loginWithFacebook, made with no other call in progress, returns        *)
(* {success: false, error} and leaves accessToken and the default         *)
(* Authorization header as they were when the call was made, and          *)
(* isLoading false; isLoading is false whenever none of the three         *)
(* operations is in progress.                                             *)
(***************************************************************************)
C23_FailedLoginChangesNothing ==
  [][/\ \A g \in Frames :
          (frames[g].kind \in AuthKinds /\ ~Settled(g) /\ OnlyCall(g)
             /\ frames'[g].childOut = "err") =>
            /\ frames'[g].res = "ok" /\ frames'[g].ret = "failure"
            /\ store'.accessToken = frames[PostOf(g)].sessTok
            /\ defAuth' = frames[PostOf(g)].hdr1
            /\ ~store'.isLoading
     /\ (\A g \in DOMAIN frames' :
           frames'[g].kind \in AuthKinds => frames'[g].res # "pending")
          => ~store'.isLoading]_vars

\* The fetchDashboardData calls in progress.
FetchesInFlight == {g \in Frames : frames[g].kind = "fetch" /\ ~Settled(g)}

\* Fetch g was made for another page or date range than the current ones.
Stale(g) ==
  \/ frames[g].page # dash.selectedPage
  \/ frames[g].days # DaysOf(dash.dateRange)

(***************************************************************************)
(* C24: the step that completes a fetch made for an earlier selection     *)
(* (another page or date range than the current ones, or none after       *)
(* clearDashboard) does not leave that fetch's response as dashboardData. *)
(***************************************************************************)
C24_StaleResponseNotDisplayed ==
  [][\A g \in FetchesInFlight :
       (frames'[g].childOut = "ok" /\ Stale(g))
         => dash'.dashboardData # DataFor(frames[g].page, frames[g].days)]_vars

(***************************************************************************)
(* C25: the dashboard store's isLoading is true exactly when at least one *)
(* fetchDashboardData call is in progress.                                *)
(***************************************************************************)
C25_LoadingWhileFetching ==
  dash.isLoading <=> FetchesInFlight # {}
====
